---- MODULE Spec2Model ----
(***************************************************************************)
(* star-router: the path-template parser (path.rs), the prefix tree        *)
(* (tree.rs) and the Router facade (router.rs).                             *)
(*                                                                         *)
(* Strings that the code inspects character by character (templates,       *)
(* request paths, segment names, parameter values) are sequences of        *)
(* one-character strings.  Route names, methods and the base address are    *)
(* only compared or used as map keys and stay atomic.                       *)
(* An Option<T> is a sequence of length 0 (None) or 1 (Some).               *)
(* A Map<K, V> is a function whose domain is the key set.                   *)
(* A call that panics returns the result kind "Panic".                      *)
(*                                                                         *)
(* Spec is the Router under a caller that adds, resolves, links and         *)
(* optimizes; SpecPath is Path::parse and Path::render called on their own  *)
(* on every template of up to MaxChars characters.                          *)
(***************************************************************************)
EXTENDS Integers, Sequences, FiniteSets, TLC

VARIABLES routes, tree, last

vars == <<routes, tree, last>>

----------------------------------------------------------------------------
(* Bounds of the model and the inputs drawn by the actions. *)

\* longest template, in segments
MaxSegs == 2

\* longest request path, in pieces
MaxPieces == 3

Methods == {"GET", "POST"}

Names == {"r1", "r2"}

Items == {1, 2}

\* pieces a template is built from: two literals, a parameter, a wildcard
TemplatePieces == {<<"a">>, <<"b">>, <<":", "x">>, <<"*", "w">>}

\* pieces a request path is built from
RequestPieces == {<<"a">>, <<"b">>}

\* longest template given to Path::parse on its own, in characters
MaxChars == 5

\* characters such a template is built from: the separator, the two sigils,
\* a letter and a character longer than one byte
PathChars == {"/", ":", "*", "a", "é"}

SeqsUpTo(S, n) == UNION {[1..k -> S] : k \in 0..n}

----------------------------------------------------------------------------
(* map.rs *)

EmptyMap == [k \in {} |-> <<>>]

Insert(m, k, v) == [x \in (DOMAIN m) \cup {k} |-> IF x = k THEN v ELSE m[x]]

ContainsKey(m, k) == k \in DOMAIN m

\* Map::get: an Option
Get(m, k) == IF k \in DOMAIN m THEN <<m[k]>> ELSE <<>>

----------------------------------------------------------------------------
(* str::split, slice join *)

PATH_SEPARATOR == "/"

RECURSIVE SplitFrom(_, _, _, _)
SplitFrom(s, i, cur, acc) ==
    IF i > Len(s) THEN Append(acc, cur)
    ELSE IF s[i] = PATH_SEPARATOR
         THEN SplitFrom(s, i + 1, <<>>, Append(acc, cur))
         ELSE SplitFrom(s, i + 1, Append(cur, s[i]), acc)

\* s.split('/'): the pieces between separators, empty ones included
Split(s) == SplitFrom(s, 1, <<>>, <<>>)

\* s.split('/').skip(1): the text before the first separator dropped, no filter
PiecesSkipFirst(s) == Tail(Split(s))

\* s.split('/').filter(|p| !p.is_empty())
Pieces(s) == SelectSeq(Split(s), LAMBDA p : p # <<>>)

RECURSIVE Join(_)
Join(ps) ==
    IF ps = <<>> THEN <<>>
    ELSE IF Len(ps) = 1 THEN ps[1]
    ELSE ps[1] \o <<PATH_SEPARATOR>> \o Join(Tail(ps))

\* the length in bytes of a character's UTF-8 encoding; "é" is the model's
\* character longer than one byte
ByteLen(c) == IF c = "é" THEN 2 ELSE 1

\* s.is_char_boundary(1) for a byte index inside s: what the slices &s[..1]
\* and &s[1..] need in order not to panic
CharBoundary1(s) == s # <<>> /\ ByteLen(s[1]) = 1

----------------------------------------------------------------------------
(* path.rs *)

ItemOf(part) ==
    [kind |-> CASE part[1] = ":" -> "Parameter"
                [] part[1] = "*" -> "Wildcard"
                [] OTHER -> "Static",
     name |-> part]

IsStatic(item) == item.kind = "Static"

IsWildcard(item) == item.kind = "Wildcard"

\* Item::validate
ItemValid(item) == item.name # <<>>

\* Path::validate: the first error in segment order, or "Ok"
RECURSIVE ValidateFrom(_, _)
ValidateFrom(items, i) ==
    IF i > Len(items) THEN "Ok"
    ELSE IF ~ItemValid(items[i]) THEN "NameMustNotBeEmpty"
    ELSE IF IsWildcard(items[i]) /\ i # Len(items) THEN "WildcardItemMustBeLast"
    ELSE ValidateFrom(items, i + 1)

Validate(items) == ValidateFrom(items, 1)

\* Path::parse.  The closure slices &part[..1] for every piece while the
\* items are collected, before validate runs: a piece whose first character
\* is longer than one byte makes the call panic ("Panic").
Parse(method, template) ==
    LET parts == Pieces(template)
        items == [i \in 1..Len(parts) |-> ItemOf(parts[i])]
        v == Validate(items)
    IN  IF \E i \in 1..Len(parts) : ~CharBoundary1(parts[i])
        THEN [kind |-> "Panic", path |-> <<>>]
        ELSE [kind |-> v,
              path |-> IF v = "Ok" THEN <<[method |-> method, items |-> items]>>
                       ELSE <<>>]

\* Path::render_original
RenderOriginal(path) == Join([i \in 1..Len(path.items) |-> path.items[i].name])

\* Path::render looking a parameter up under the segment's whole name, sigil
\* included
RECURSIVE RenderFromWithSigil(_, _, _, _)
RenderFromWithSigil(items, i, params, acc) ==
    IF i > Len(items) THEN [kind |-> "Ok", text |-> Join(acc)]
    ELSE IF IsStatic(items[i])
         THEN RenderFromWithSigil(items, i + 1, params, Append(acc, items[i].name))
         ELSE IF ~CharBoundary1(items[i].name)
              THEN [kind |-> "Panic", text |-> <<>>]
         ELSE IF ContainsKey(params, items[i].name)
              THEN RenderFromWithSigil(items, i + 1, params,
                                       Append(acc, params[items[i].name]))
              ELSE [kind |-> "ParameterNotFound", text |-> items[i].name]

\* Path::render: the first missing parameter in segment order fails the call;
\* the slice &name[1..] of a Parameter or Wildcard name panics off a character
\* boundary
RECURSIVE RenderFrom(_, _, _, _)
RenderFrom(items, i, params, acc) ==
    IF i > Len(items) THEN [kind |-> "Ok", text |-> Join(acc)]
    ELSE IF IsStatic(items[i])
         THEN RenderFrom(items, i + 1, params, Append(acc, items[i].name))
         ELSE IF ~CharBoundary1(items[i].name)
              THEN [kind |-> "Panic", text |-> <<>>]
         ELSE IF ContainsKey(params, Tail(items[i].name))
              THEN RenderFrom(items, i + 1, params,
                              Append(acc, params[Tail(items[i].name)]))
              ELSE [kind |-> "ParameterNotFound", text |-> items[i].name]

Render(path, params) == RenderFrom(path.items, 1, params, <<>>)

----------------------------------------------------------------------------
(* tree.rs: Node *)

NodeNew == [static_children |-> EmptyMap, dynamic_child |-> <<>>, item |-> EmptyMap]

DynamicChildCreate(name, type, node) == [name |-> name, child_type |-> type, node |-> node]

\* Node::ensure with the assignment moved before the is_none test: a second
\* dynamic child overwrites the first and the call then fails
EnsureOverwriting(node, item) ==
    IF IsStatic(item)
    THEN [err |-> FALSE,
          node |-> IF ContainsKey(node.static_children, item.name)
                   THEN node
                   ELSE [node EXCEPT !.static_children = Insert(@, item.name, NodeNew)]]
    ELSE [err |-> node.dynamic_child # <<>>,
          node |-> [node EXCEPT !.dynamic_child =
                       <<DynamicChildCreate(item.name, item.kind, NodeNew)>>]]

\* Node::ensure that descends into an existing dynamic child of the same kind
\* and name instead of failing
EnsureSameDynamic(node, item) ==
    IF IsStatic(item)
    THEN [err |-> FALSE,
          node |-> IF ContainsKey(node.static_children, item.name)
                   THEN node
                   ELSE [node EXCEPT !.static_children = Insert(@, item.name, NodeNew)]]
    ELSE IF node.dynamic_child = <<>>
         THEN [err |-> FALSE,
               node |-> [node EXCEPT !.dynamic_child =
                            <<DynamicChildCreate(item.name, item.kind, NodeNew)>>]]
         ELSE [err |-> ~(/\ node.dynamic_child[1].name = item.name
                         /\ node.dynamic_child[1].child_type = item.kind),
               node |-> node]

\* Node::ensure inserting a new static child without the contains_key test
EnsureFreshStatic(node, item) ==
    IF IsStatic(item)
    THEN [err |-> FALSE,
          node |-> [node EXCEPT !.static_children = Insert(@, item.name, NodeNew)]]
    ELSE IF node.dynamic_child = <<>>
         THEN [err |-> FALSE,
               node |-> [node EXCEPT !.dynamic_child =
                            <<DynamicChildCreate(item.name, item.kind, NodeNew)>>]]
         ELSE [err |-> TRUE, node |-> node]

\* Node::ensure: the node as the call leaves it, and whether it failed
Ensure(node, item) ==
    IF IsStatic(item)
    THEN [err |-> FALSE,
          node |-> IF ContainsKey(node.static_children, item.name)
                   THEN node
                   ELSE [node EXCEPT !.static_children = Insert(@, item.name, NodeNew)]]
    ELSE IF node.dynamic_child = <<>>
         THEN [err |-> FALSE,
               node |-> [node EXCEPT !.dynamic_child =
                            <<DynamicChildCreate(item.name, item.kind, NodeNew)>>]]
         ELSE [err |-> TRUE, node |-> node]

\* the &mut Node that a successful ensure returns
EnsuredChild(node, item) ==
    IF IsStatic(item) THEN node.static_children[item.name]
    ELSE node.dynamic_child[1].node

\* writing through that &mut Node
WithEnsuredChild(node, item, child) ==
    IF IsStatic(item) THEN [node EXCEPT !.static_children[item.name] = child]
    ELSE [node EXCEPT !.dynamic_child[1].node = child]

Has(node, method) == ContainsKey(node.item, method)

Set(node, method, value) == [node EXCEPT !.item = Insert(@, method, value)]

GetItem(node, method) == Get(node.item, method)

\* Node::get_child that asks the dynamic child first
GetChildDynamicFirst(node, name) ==
    IF node.dynamic_child # <<>>
    THEN LET child == node.dynamic_child[1]
         IN  <<[item |-> child.node, name |-> child.name,
                loop_behavior |-> IF child.child_type = "Parameter"
                                  THEN "Collect" ELSE "Finish"]>>
    ELSE IF ContainsKey(node.static_children, name)
         THEN <<[item |-> node.static_children[name], name |-> name,
                 loop_behavior |-> "Ignore"]>>
         ELSE <<>>

\* Node::get_child without the get_wildcard alternative
GetChildNoWildcard(node, name) ==
    IF ContainsKey(node.static_children, name)
    THEN <<[item |-> node.static_children[name], name |-> name, loop_behavior |-> "Ignore"]>>
    ELSE IF node.dynamic_child = <<>> THEN <<>>
    ELSE LET child == node.dynamic_child[1]
         IN  IF child.child_type = "Parameter"
             THEN <<[item |-> child.node, name |-> child.name, loop_behavior |-> "Collect"]>>
             ELSE <<>>

\* Node::get_child: an Option<LookupResult>
GetChild(node, name) ==
    IF ContainsKey(node.static_children, name)
    THEN <<[item |-> node.static_children[name], name |-> name, loop_behavior |-> "Ignore"]>>
    ELSE IF node.dynamic_child = <<>> THEN <<>>
    ELSE LET child == node.dynamic_child[1]
         IN  IF child.child_type = "Parameter"
             THEN <<[item |-> child.node, name |-> child.name, loop_behavior |-> "Collect"]>>
             ELSE IF child.child_type = "Wildcard"
                  THEN <<[item |-> child.node, name |-> child.name, loop_behavior |-> "Finish"]>>
                  ELSE <<>>

----------------------------------------------------------------------------
(* tree.rs: Tree *)

TreeNew == [root |-> NodeNew]

\* Tree::add without the has test before set
RECURSIVE AddFromOverwriting(_, _, _, _, _)
AddFromOverwriting(node, items, i, method, value) ==
    IF i > Len(items)
    THEN [err |-> FALSE, node |-> Set(node, method, value)]
    ELSE LET e == Ensure(node, items[i])
         IN  IF e.err THEN [err |-> TRUE, node |-> e.node]
             ELSE LET sub == AddFromOverwriting(EnsuredChild(e.node, items[i]), items,
                                                i + 1, method, value)
                  IN  [err |-> sub.err,
                       node |-> WithEnsuredChild(e.node, items[i], sub.node)]

\* the loop and the tail of Tree::add, from segment i on at `node`; what ensure
\* has written stays written when a later step fails
RECURSIVE AddFrom(_, _, _, _, _)
AddFrom(node, items, i, method, value) ==
    IF i > Len(items)
    THEN IF Has(node, method)
         THEN [err |-> TRUE, node |-> node]
         ELSE [err |-> FALSE, node |-> Set(node, method, value)]
    ELSE LET e == Ensure(node, items[i])
         IN  IF e.err THEN [err |-> TRUE, node |-> e.node]
             ELSE LET sub == AddFrom(EnsuredChild(e.node, items[i]), items, i + 1,
                                     method, value)
                  IN  [err |-> sub.err,
                       node |-> WithEnsuredChild(e.node, items[i], sub.node)]

\* Tree::add
TreeAdd(t, path, value) ==
    LET r == AddFrom(t.root, path.items, 1, path.method, value)
    IN  [tree |-> [root |-> r.node],
         kind |-> IF r.err THEN "PathAlreadyRegistered" ELSE "Ok",
         text |-> IF r.err THEN RenderOriginal(path) ELSE <<>>]

\* the loop of Tree::lookup recording only the current piece for a wildcard
RECURSIVE LookupFromNoJoin(_, _, _, _)
LookupFromNoJoin(node, pieces, i, params) ==
    IF i > Len(pieces) THEN [abort |-> FALSE, found |-> TRUE, node |-> node, params |-> params]
    ELSE LET c == GetChild(node, pieces[i])
         IN  IF c = <<>> THEN [abort |-> FALSE, found |-> FALSE, node |-> node, params |-> params]
             ELSE LET res == c[1]
                      param_name == Tail(res.name)
                  IN  IF ~CharBoundary1(res.name)
                      THEN [abort |-> TRUE, found |-> FALSE, node |-> node,
                            params |-> params]
                      ELSE
                      CASE res.loop_behavior = "Ignore" ->
                             LookupFromNoJoin(res.item, pieces, i + 1, params)
                        [] res.loop_behavior = "Collect" ->
                             LookupFromNoJoin(res.item, pieces, i + 1,
                                              Insert(params, param_name, pieces[i]))
                        [] res.loop_behavior = "Finish" ->
                             [abort |-> FALSE, found |-> TRUE, node |-> res.item,
                              params |-> Insert(params, param_name, pieces[i])]

\* the loop of Tree::lookup leaving the loop, instead of the call, at a piece
\* without a child
RECURSIVE LookupFromBreak(_, _, _, _)
LookupFromBreak(node, pieces, i, params) ==
    IF i > Len(pieces) THEN [abort |-> FALSE, found |-> TRUE, node |-> node, params |-> params]
    ELSE LET c == GetChild(node, pieces[i])
         IN  IF c = <<>> THEN [abort |-> FALSE, found |-> TRUE, node |-> node, params |-> params]
             ELSE LET res == c[1]
                      param_name == Tail(res.name)
                  IN  IF ~CharBoundary1(res.name)
                      THEN [abort |-> TRUE, found |-> FALSE, node |-> node,
                            params |-> params]
                      ELSE
                      CASE res.loop_behavior = "Ignore" ->
                             LookupFromBreak(res.item, pieces, i + 1, params)
                        [] res.loop_behavior = "Collect" ->
                             LookupFromBreak(res.item, pieces, i + 1,
                                             Insert(params, param_name, pieces[i]))
                        [] res.loop_behavior = "Finish" ->
                             [abort |-> FALSE, found |-> TRUE, node |-> res.item,
                              params |-> Insert(params, param_name,
                                                Join(SubSeq(pieces, i, Len(pieces))))]

\* the loop of Tree::lookup filing a value under the whole name of the
\* segment, sigil included
RECURSIVE LookupFromKeepSigil(_, _, _, _)
LookupFromKeepSigil(node, pieces, i, params) ==
    IF i > Len(pieces) THEN [abort |-> FALSE, found |-> TRUE, node |-> node, params |-> params]
    ELSE LET c == GetChild(node, pieces[i])
         IN  IF c = <<>> THEN [abort |-> FALSE, found |-> FALSE, node |-> node, params |-> params]
             ELSE LET res == c[1]
                      param_name == res.name
                  IN  IF ~CharBoundary1(res.name)
                      THEN [abort |-> TRUE, found |-> FALSE, node |-> node,
                            params |-> params]
                      ELSE
                      CASE res.loop_behavior = "Ignore" ->
                             LookupFromKeepSigil(res.item, pieces, i + 1, params)
                        [] res.loop_behavior = "Collect" ->
                             LookupFromKeepSigil(res.item, pieces, i + 1,
                                        Insert(params, param_name, pieces[i]))
                        [] res.loop_behavior = "Finish" ->
                             [abort |-> FALSE, found |-> TRUE, node |-> res.item,
                              params |-> Insert(params, param_name,
                                                Join(SubSeq(pieces, i, Len(pieces))))]

\* the loop of Tree::lookup from piece i on at `node`
RECURSIVE LookupFrom(_, _, _, _)
LookupFrom(node, pieces, i, params) ==
    IF i > Len(pieces) THEN [abort |-> FALSE, found |-> TRUE, node |-> node, params |-> params]
    ELSE LET c == GetChild(node, pieces[i])
         IN  IF c = <<>> THEN [abort |-> FALSE, found |-> FALSE, node |-> node, params |-> params]
             ELSE LET res == c[1]
                      param_name == Tail(res.name)
                  IN  IF ~CharBoundary1(res.name)
                      THEN [abort |-> TRUE, found |-> FALSE, node |-> node,
                            params |-> params]
                      ELSE
                      CASE res.loop_behavior = "Ignore" ->
                             LookupFrom(res.item, pieces, i + 1, params)
                        [] res.loop_behavior = "Collect" ->
                             LookupFrom(res.item, pieces, i + 1,
                                        Insert(params, param_name, pieces[i]))
                        [] res.loop_behavior = "Finish" ->
                             [abort |-> FALSE, found |-> TRUE, node |-> res.item,
                              params |-> Insert(params, param_name,
                                                Join(SubSeq(pieces, i, Len(pieces))))]

\* Tree::lookup reporting a missing method as a missing path
LookupOneError(t, method, path) ==
    LET w == LookupFrom(t.root, Pieces(path), 1, EmptyMap)
    IN  IF w.abort THEN [kind |-> "Panic", item |-> <<>>, params |-> EmptyMap]
        ELSE IF ~w.found \/ GetItem(w.node, method) = <<>>
        THEN [kind |-> "PathNotFound", item |-> <<>>, params |-> EmptyMap]
        ELSE [kind |-> "Ok", item |-> GetItem(w.node, method), params |-> w.params]

\* Tree::lookup
Lookup(t, method, path) ==
    LET w == LookupFrom(t.root, Pieces(path), 1, EmptyMap)
    IN  IF w.abort THEN [kind |-> "Panic", item |-> <<>>, params |-> EmptyMap]
        ELSE IF ~w.found
        THEN [kind |-> "PathNotFound", item |-> <<>>, params |-> EmptyMap]
        ELSE IF GetItem(w.node, method) = <<>>
             THEN [kind |-> "MethodNotFound", item |-> <<>>, params |-> EmptyMap]
             ELSE [kind |-> "Ok", item |-> GetItem(w.node, method), params |-> w.params]

----------------------------------------------------------------------------
(* route.rs, router.rs *)

BASE == "http://example.com"

\* Route::create
RouteCreate(name, method, template, item) ==
    LET p == Parse(method, template)
    IN  [kind |-> p.kind,
         route |-> IF p.kind = "Ok"
                   THEN <<[name |-> name, path |-> p.path[1], item |-> item]>>
                   ELSE <<>>]

\* Router::add inserting into the tree before it looks at the name map
RouterAddTreeFirst(rs, t, r) ==
    LET a == TreeAdd(t, r.path, r.name)
    IN  IF a.kind # "Ok"
        THEN [routes |-> rs, tree |-> a.tree, kind |-> a.kind]
        ELSE IF ContainsKey(rs, r.name)
             THEN [routes |-> rs, tree |-> a.tree, kind |-> "RouteAlreadyExists"]
             ELSE [routes |-> Insert(rs, r.name, r), tree |-> a.tree, kind |-> "Ok"]

\* Router::add putting the name into the map before it adds to the tree
RouterAddInsertFirst(rs, t, r) ==
    IF ContainsKey(rs, r.name)
    THEN [routes |-> rs, tree |-> t, kind |-> "RouteAlreadyExists"]
    ELSE LET a == TreeAdd(t, r.path, r.name)
         IN  [routes |-> Insert(rs, r.name, r), tree |-> a.tree, kind |-> a.kind]

\* Router::add: the router as the call leaves it, and the result
RouterAddResult(rs, t, r) ==
    IF ContainsKey(rs, r.name)
    THEN [routes |-> rs, tree |-> t, kind |-> "RouteAlreadyExists"]
    ELSE LET a == TreeAdd(t, r.path, r.name)
         IN  IF a.kind # "Ok"
             THEN [routes |-> rs, tree |-> a.tree, kind |-> a.kind]
             ELSE [routes |-> Insert(rs, r.name, r), tree |-> a.tree, kind |-> "Ok"]

\* Router::resolve
ResolveResult(rs, t, method, path) ==
    LET m == Lookup(t, method, path)
    IN  IF m.kind # "Ok" THEN m
        ELSE IF ~ContainsKey(rs, m.item[1])
             THEN [kind |-> "PathNotFound", item |-> <<>>, params |-> EmptyMap]
             ELSE [kind |-> "Ok", item |-> <<rs[m.item[1]].item>>, params |-> m.params]

\* the number of separators a text starts with
RECURSIVE LeadingSeparators(_)
LeadingSeparators(s) ==
    IF s = <<>> \/ s[1] # PATH_SEPARATOR THEN 0 ELSE 1 + LeadingSeparators(Tail(s))

\* self.base.join(rendered) of Router::link, for a base address of scheme http
\* with no path of its own and a text of letters and separators, as the url
\* crate resolves a reference against a base: a text that starts with two or
\* more separators names a host of its own, and is an error when no host
\* follows them; a text that starts with one separator is the path; any other
\* text is appended to the base's path "/".
UrlJoin(base, rendered) ==
    LET n == LeadingSeparators(rendered)
        rest == SubSeq(rendered, n + 1, Len(rendered))
        host == Split(rest)[1]
        after == SubSeq(rest, Len(host) + 1, Len(rest))
    IN  IF n >= 2
        THEN IF host = <<>>
             THEN [kind |-> "UrlParseError", url |-> <<>>]
             ELSE [kind |-> "Ok",
                   url |-> <<[origin |-> <<"http://">> \o host,
                              path |-> IF after = <<>> THEN <<PATH_SEPARATOR>>
                                       ELSE after]>>]
        ELSE [kind |-> "Ok",
              url |-> <<[origin |-> <<base>>,
                         path |-> IF n = 1 THEN rendered
                                  ELSE <<PATH_SEPARATOR>> \o rendered]>>]

\* Router::link
LinkResult(rs, name, params) ==
    IF ~ContainsKey(rs, name)
    THEN [kind |-> "RouteNotFound", url |-> <<>>]
    ELSE LET r == Render(rs[name].path, params)
         IN  IF r.kind # "Ok" THEN [kind |-> r.kind, url |-> <<>>]
             ELSE UrlJoin(BASE, r.text)

\* Map::optimize: shrink_to_fit keeps every entry
MapOptimize(m) == [k \in DOMAIN m |-> m[k]]

\* Node::optimize rebuilding the node from its static children alone
RECURSIVE NodeOptimizeStaticOnly(_)
NodeOptimizeStaticOnly(node) ==
    LET shrunk == MapOptimize(node.static_children)
    IN  [static_children |-> [k \in DOMAIN shrunk |-> NodeOptimizeStaticOnly(shrunk[k])],
         dynamic_child |-> <<>>,
         item |-> node.item]

\* Node::optimize: the map of static children, then every static child, then
\* the node of the dynamic child; the item map is left as it is
RECURSIVE NodeOptimize(_)
NodeOptimize(node) ==
    LET shrunk == MapOptimize(node.static_children)
    IN  [static_children |-> [k \in DOMAIN shrunk |-> NodeOptimize(shrunk[k])],
         dynamic_child |->
             IF node.dynamic_child = <<>> THEN <<>>
             ELSE <<[node.dynamic_child[1] EXCEPT !.node = NodeOptimize(@)]>>,
         item |-> node.item]

\* Tree::optimize
TreeOptimize(t) == [root |-> NodeOptimize(t.root)]

\* Router::optimize
RouterOptimize(rs, t) == [routes |-> MapOptimize(rs), tree |-> TreeOptimize(t)]

----------------------------------------------------------------------------
(* The inputs the actions draw. *)

\* "/" followed by the pieces joined with "/"
Slashed(ps) == <<PATH_SEPARATOR>> \o Join(ps)

\* templates and request paths whose separators are not one before each piece:
\* none at all, doubled, trailing
OddlySeparated ==
    {<<>>, <<"/", "/">>, <<"a", "/">>, <<"/", "/", "a", "/", "/", "b", "/">>}

\* a template, or request path, of one piece that starts with a character
\* longer than one byte
MultiByte == {<<"/", "é", "a">>}

Templates ==
    {Slashed(ps) : ps \in SeqsUpTo(TemplatePieces, MaxSegs)} \cup OddlySeparated
        \cup MultiByte

RequestPaths ==
    {Slashed(ps) : ps \in SeqsUpTo(RequestPieces, MaxPieces)} \cup OddlySeparated
        \cup MultiByte

LinkParams ==
    {EmptyMap,
     [k \in {<<"x">>} |-> <<"a">>],
     [k \in {<<"x">>, <<"w">>} |-> <<"b">>],
     [k \in {<<"w">>} |-> <<"a", "/", "b">>],
     [k \in {<<"x">>} |-> <<"/", "/">>]}

NoInput == [name |-> "", method |-> "", text |-> <<>>, item |-> 0, params |-> EmptyMap]

NoResult ==
    [kind |-> "", item |-> <<>>, params |-> EmptyMap, url |-> <<>>, path |-> <<>>,
     text |-> <<>>]

\* every template of up to MaxChars characters
RawTemplates == SeqsUpTo(PathChars, MaxChars)

\* parameter maps given to Path::render on its own: keyed by the names that
\* templates of PathChars can carry after the sigil, the empty one included
RenderParams ==
    {EmptyMap,
     [k \in {<<"a">>} |-> <<"b">>],
     [k \in {<<>>} |-> <<"c">>],
     [k \in {<<"a">>, <<>>, <<"a", "a">>} |-> <<"b", "/", "c">>]}

----------------------------------------------------------------------------
(* The state machine: a Router and its single caller.  `last` is the call   *)
(* that has returned and its result, until the caller has taken the result *)
(* (op = "idle"); the caller makes one call at a time.                     *)

Idle == [op |-> "idle", in |-> NoInput, res |-> NoResult]

Init ==
    /\ routes = EmptyMap
    /\ tree = TreeNew
    /\ last = Idle

\* Route::create(name, method, template, item), then Router::add of the route
\* when the template parsed.  The number of routes is capped by the number of
\* names: once every name is registered no further add is drawn (each would
\* return RouteAlreadyExists, as it does while a name is still free).
Add(name, method, template, item) ==
    LET c == RouteCreate(name, method, template, item)
        in == [NoInput EXCEPT !.name = name, !.method = method, !.text = template,
                              !.item = item]
    IN  /\ last.op = "idle"
        /\ Cardinality(DOMAIN routes) < Cardinality(Names)
        /\ IF c.kind # "Ok"
           THEN /\ last' = [op |-> "create", in |-> in,
                             res |-> [NoResult EXCEPT !.kind = c.kind]]
                /\ UNCHANGED <<routes, tree>>
           ELSE LET a == RouterAddResult(routes, tree, c.route[1])
                IN  /\ routes' = a.routes
                    /\ tree' = a.tree
                    /\ last' = [op |-> "add", in |-> in,
                                res |-> [NoResult EXCEPT !.kind = a.kind]]

\* Router::resolve(method, path)
Resolve(method, path) ==
    LET r == ResolveResult(routes, tree, method, path)
    IN  /\ last.op = "idle"
        /\ last' = [op |-> "resolve",
                    in |-> [NoInput EXCEPT !.method = method, !.text = path],
                    res |-> [NoResult EXCEPT !.kind = r.kind, !.item = r.item,
                                             !.params = r.params]]
        /\ UNCHANGED <<routes, tree>>

\* Router::link(name, params)
Link(name, params) ==
    LET r == LinkResult(routes, name, params)
    IN  /\ last.op = "idle"
        /\ last' = [op |-> "link",
                    in |-> [NoInput EXCEPT !.name = name, !.params = params],
                    res |-> [NoResult EXCEPT !.kind = r.kind, !.url = r.url]]
        /\ UNCHANGED <<routes, tree>>

\* the caller draws the arguments of a call once the last result is taken
DoAdd ==
    /\ last.op = "idle"
    /\ \E n \in Names, m \in Methods, t \in Templates, i \in Items : Add(n, m, t, i)

DoResolve ==
    /\ last.op = "idle"
    /\ \E m \in Methods, p \in RequestPaths : Resolve(m, p)

DoLink ==
    /\ last.op = "idle"
    /\ \E n \in Names, p \in LinkParams : Link(n, p)

\* Router::optimize, which takes the router and gives it back
Optimize ==
    LET o == RouterOptimize(routes, tree)
    IN  /\ last.op = "idle"
        /\ routes' = o.routes
        /\ tree' = o.tree
        /\ last' = [op |-> "optimize", in |-> NoInput, res |-> NoResult]

\* the caller takes the result
Return ==
    /\ last.op # "idle"
    /\ last' = Idle
    /\ UNCHANGED <<routes, tree>>

\* Path::parse(method, template) on its own
PathParse(method, template) ==
    LET p == Parse(method, template)
    IN  /\ last.op = "idle"
        /\ last' = [op |-> "parse",
                    in |-> [NoInput EXCEPT !.method = method, !.text = template],
                    res |-> [NoResult EXCEPT !.kind = p.kind, !.path = p.path]]
        /\ UNCHANGED <<routes, tree>>

\* Path::render(params) of the Path that Path::parse(method, template) gave
PathRender(method, template, params) ==
    LET p == Parse(method, template)
        r == Render(p.path[1], params)
    IN  /\ last.op = "idle"
        /\ p.kind = "Ok"
        /\ last' = [op |-> "render",
                    in |-> [NoInput EXCEPT !.method = method, !.text = template,
                                          !.params = params],
                    res |-> [NoResult EXCEPT !.kind = r.kind, !.path = p.path,
                                             !.text = r.text]]
        /\ UNCHANGED <<routes, tree>>

DoParse ==
    /\ last.op = "idle"
    /\ \E m \in Methods, t \in RawTemplates : PathParse(m, t)

DoRender ==
    /\ last.op = "idle"
    /\ \E m \in Methods, t \in RawTemplates, q \in RenderParams : PathRender(m, t, q)

Next == DoAdd \/ DoResolve \/ DoLink \/ Optimize \/ Return

Spec == Init /\ [][Next]_vars

\* Path::parse and Path::render called on their own, on every short template
NextPath == DoParse \/ DoRender \/ Return

SpecPath == Init /\ [][NextPath]_vars

----------------------------------------------------------------------------
(* What the properties are stated in: the registered routes, and what a    *)
(* template means for a request path.                                       *)

RouteSet == {routes[n] : n \in DOMAIN routes}

\* the pieces of the request path of the last call
LastPieces == Pieces(last.in.text)

Prefix(items, k) == SubSeq(items, 1, k)

StaticItem(p) == [kind |-> "Static", name |-> p]

AllStatic(items) == \A i \in 1..Len(items) : items[i].kind = "Static"

\* the template matches the path, piece by piece
Matches(items, ps) ==
    LET n == Len(items)
        SegOk(i) == items[i].kind = "Static" => items[i].name = ps[i]
    IN  IF n > 0 /\ items[n].kind = "Wildcard"
        THEN Len(ps) >= n /\ \A i \in 1..(n - 1) : SegOk(i)
        ELSE Len(ps) = n /\ \A i \in 1..n : SegOk(i)

\* the parameter map a matching template binds: one piece for a Parameter, the
\* rest of the path for a Wildcard, the later segment for a repeated name
Bindings(items, ps) ==
    LET D == {i \in 1..Len(items) : items[i].kind # "Static"}
        At(k) == CHOOSE i \in D : /\ Tail(items[i].name) = k
                                  /\ \A j \in D : Tail(items[j].name) = k => j <= i
    IN  [k \in {Tail(items[i].name) : i \in D} |->
            IF items[At(k)].kind = "Parameter" THEN ps[At(k)]
            ELSE Join(SubSeq(ps, At(k), Len(ps)))]

\* some registered route continues the first i-1 segments of `items` with the
\* literal p
StaticSibling(items, i, p) ==
    \E r \in RouteSet :
        /\ Len(r.path.items) >= i
        /\ Prefix(r.path.items, i - 1) = Prefix(items, i - 1)
        /\ r.path.items[i] = StaticItem(p)

\* along the first k segments of `items`, every literal is the piece at its
\* position and no piece at a dynamic position names a literal sibling
Follows(items, ps, k) ==
    /\ k <= Len(ps)
    /\ \A i \in 1..k : IF items[i].kind = "Static" THEN items[i].name = ps[i]
                       ELSE ~StaticSibling(items, i, ps[i])

\* the segments of a template that parses
ItemsOf(template) == Parse("GET", template).path[1].items

----------------------------------------------------------------------------
(* C1: an add that returns an error (RouteAlreadyExists or                 *)
(* PathAlreadyRegistered) leaves the name map and the whole tree, every    *)
(* node of it, exactly as they were before the call.                        *)
C1_FailedAddChangesNothing ==
    [][(last'.op = "add" /\ last'.res.kind # "Ok")
          => (routes' = routes /\ tree' = tree)]_vars

\* a failed add whose first segment was walked through an existing literal
\* child and whose second segment met the conflict
C1_Witness ==
    /\ last.op = "add"
    /\ last.res.kind = "PathAlreadyRegistered"
    /\ Len(Pieces(last.in.text)) = 2
    /\ ItemsOf(last.in.text)[1].kind = "Static"
    /\ ItemsOf(last.in.text)[2].kind # "Static"

----------------------------------------------------------------------------
(* C2: a request path that is, piece by piece, the literal template of a   *)
(* route registered for the method resolves to that route's item with no   *)
(* parameter, whatever dynamic siblings the nodes on the way have and       *)
(* whichever route was registered first.                                    *)
C2_StaticWins ==
    last.op = "resolve" =>
        \A r \in RouteSet :
            (/\ r.path.method = last.in.method
             /\ AllStatic(r.path.items)
             /\ [i \in 1..Len(r.path.items) |-> r.path.items[i].name] = LastPieces)
            => /\ last.res.kind = "Ok"
               /\ last.res.item = <<r.item>>
               /\ last.res.params = EmptyMap

\* /a/:x and /a/a are both registered for GET with different items, and
\* GET /a/a has been resolved
C2_Witness ==
    /\ last.op = "resolve"
    /\ last.in.method = "GET"
    /\ LastPieces = <<<<"a">>, <<"a">>>>
    /\ \E r, d \in RouteSet :
          /\ r.path = [method |-> "GET", items |-> <<StaticItem(<<"a">>), StaticItem(<<"a">>)>>]
          /\ d.path = [method |-> "GET",
                       items |-> <<StaticItem(<<"a">>),
                                   [kind |-> "Parameter", name |-> <<":", "x">>]>>]
          /\ r.item # d.item
          /\ last.res.item = <<r.item>>

----------------------------------------------------------------------------
(* C3: an add of a route with a new name fails with PathAlreadyRegistered  *)
(* exactly when (a) one of its dynamic segments arrives at a node that      *)
(* already has a dynamic child, of any kind and name, or (b) a route with  *)
(* the same segments is registered for the same method; otherwise it       *)
(* succeeds.  After the failure every request resolves as before.           *)
DynamicConflict(path) ==
    \E i \in 1..Len(path.items) : \E r \in RouteSet :
        /\ path.items[i].kind # "Static"
        /\ Len(r.path.items) >= i
        /\ Prefix(r.path.items, i - 1) = Prefix(path.items, i - 1)
        /\ r.path.items[i].kind # "Static"

MethodConflict(path) == \E r \in RouteSet : r.path = path

----------------------------------------------------------------------------
(* C4: with exactly one route registered, adding under a new name the same *)
(* template for another method succeeds, for every template, and a          *)
(* matching request then resolves to each route's own item under its own   *)
(* method.                                                                  *)
C4_SecondMethodAccepted ==
    [][(/\ last'.op = "add"
        /\ last'.in.name \notin DOMAIN routes
        /\ Cardinality(DOMAIN routes) = 1
        /\ \E r \in RouteSet : /\ r.path.items = ItemsOf(last'.in.text)
                               /\ r.path.method # last'.in.method)
          => /\ last'.res.kind = "Ok"
             /\ \A r \in RouteSet : \A p \in RequestPaths :
                   Matches(r.path.items, Pieces(p)) =>
                      /\ ResolveResult(routes', tree', r.path.method, p).item = <<r.item>>
                      /\ ResolveResult(routes', tree', last'.in.method, p).item
                            = <<last'.in.item>>]_vars

----------------------------------------------------------------------------
(* C5: when the walk follows a registered template up to its final         *)
(* Wildcard segment, the request resolves to that route's item and the      *)
(* wildcard's name without its sigil is bound to all the remaining pieces,  *)
(* one or more, joined with "/".                                            *)
C5_WildcardTakesRest ==
    last.op = "resolve" =>
        \A r \in RouteSet :
            LET T == r.path.items
                k == Len(T)
            IN  (/\ k > 0
                 /\ T[k].kind = "Wildcard"
                 /\ r.path.method = last.in.method
                 /\ Follows(T, LastPieces, k))
                => /\ last.res.kind = "Ok"
                   /\ last.res.item = <<r.item>>
                   /\ Tail(T[k].name) \in DOMAIN last.res.params
                   /\ last.res.params[Tail(T[k].name)]
                         = Join(SubSeq(LastPieces, k, Len(LastPieces)))

\* /a/*w is registered and a request /a/b/<piece> was resolved with
\* w = "b/<piece>"
C5_Witness ==
    /\ last.op = "resolve"
    /\ last.res.kind = "Ok"
    /\ Len(LastPieces) = 3
    /\ LastPieces[2] = <<"b">>
    /\ \E r \in RouteSet :
          /\ r.path.items = <<StaticItem(<<"a">>), [kind |-> "Wildcard", name |-> <<"*", "w">>]>>
          /\ last.res.item = <<r.item>>
    /\ <<"w">> \in DOMAIN last.res.params
    /\ last.res.params[<<"w">>] = <<"b", "/">> \o LastPieces[3]

----------------------------------------------------------------------------
(* C6: a successful resolve returns the item of a route registered for the *)
(* requested method whose template matches the path piece by piece, with    *)
(* the parameters that template binds.                                      *)
C6_ResolvedRouteMatches ==
    (last.op = "resolve" /\ last.res.kind = "Ok") =>
        \E r \in RouteSet :
            /\ r.path.method = last.in.method
            /\ Matches(r.path.items, LastPieces)
            /\ last.res.item = <<r.item>>
            /\ last.res.params = Bindings(r.path.items, LastPieces)

\* /a/:x is registered and /a/b was resolved through it with x = b
C6_Witness ==
    /\ last.op = "resolve"
    /\ last.res.kind = "Ok"
    /\ LastPieces = <<<<"a">>, <<"b">>>>
    /\ last.res.params = [k \in {<<"x">>} |-> <<"b">>]
    /\ \E r \in RouteSet :
          /\ r.path.items = <<StaticItem(<<"a">>), [kind |-> "Parameter", name |-> <<":", "x">>]>>
          /\ r.path.method = last.in.method

----------------------------------------------------------------------------
(* C7, as claimed: whenever some route registered for the method has a     *)
(* template that matches the path, resolve succeeds.                        *)
C7_EveryMatchResolves ==
    last.op = "resolve" =>
        ((\E r \in RouteSet : /\ r.path.method = last.in.method
                              /\ Matches(r.path.items, LastPieces))
            => last.res.kind = "Ok")

(* C7, amended: resolve succeeds whenever some route registered for the    *)
(* method has a template that matches the path and no piece at a Parameter *)
(* or Wildcard position of that template is the name of a literal sibling  *)
(* registered at the same position.                                         *)
C7_UnshadowedMatchResolves ==
    last.op = "resolve" =>
        ((\E r \in RouteSet : /\ r.path.method = last.in.method
                              /\ Matches(r.path.items, LastPieces)
                              /\ Follows(r.path.items, LastPieces, Len(r.path.items)))
            => last.res.kind = "Ok")

\* a request resolved through a dynamic segment that has a literal sibling of
\* another name
C7_Witness ==
    /\ last.op = "resolve"
    /\ last.res.kind = "Ok"
    /\ \E r \in RouteSet :
          /\ r.path.method = last.in.method
          /\ Matches(r.path.items, LastPieces)
          /\ Follows(r.path.items, LastPieces, Len(r.path.items))
          /\ \E i \in 1..Len(r.path.items) : \E q \in RequestPieces :
                /\ r.path.items[i].kind # "Static"
                /\ StaticSibling(r.path.items, i, q)

----------------------------------------------------------------------------
(* C8: the walk over the registered routes.  From the segments walked so   *)
(* far, a piece continues with the literal of that name if some route has  *)
(* it there, else with the dynamic segment some route has there (a          *)
(* Wildcard ends the walk), else the walk fails.                            *)
HasPrefix(P) ==
    \E r \in RouteSet : Len(r.path.items) >= Len(P) /\ Prefix(r.path.items, Len(P)) = P

DynamicAfter(P) ==
    {r.path.items[Len(P) + 1] : r \in {q \in RouteSet :
        /\ Len(q.path.items) > Len(P)
        /\ Prefix(q.path.items, Len(P)) = P
        /\ q.path.items[Len(P) + 1].kind # "Static"}}

RECURSIVE WalkFrom(_, _, _)
WalkFrom(P, ps, i) ==
    IF i > Len(ps) THEN [found |-> TRUE, at |-> P]
    ELSE IF HasPrefix(Append(P, StaticItem(ps[i])))
         THEN WalkFrom(Append(P, StaticItem(ps[i])), ps, i + 1)
         ELSE IF DynamicAfter(P) = {} THEN [found |-> FALSE, at |-> P]
              ELSE LET d == CHOOSE d \in DynamicAfter(P) : TRUE
                   IN  IF d.kind = "Parameter" THEN WalkFrom(Append(P, d), ps, i + 1)
                       ELSE [found |-> TRUE, at |-> Append(P, d)]

Walk(ps) == WalkFrom(<<>>, ps, 1)

\* some route for method m has exactly the segments P
EndsAt(P, m) == \E r \in RouteSet : r.path.items = P /\ r.path.method = m

(* C8: resolve fails with PathNotFound exactly when the walk fails at some *)
(* piece, with MethodNotFound exactly when the walk completes and no route  *)
(* for the requested method ends where it stopped, and succeeds otherwise.  *)
C8_ErrorKinds ==
    last.op = "resolve" =>
        LET w == Walk(LastPieces)
        IN  /\ last.res.kind = "PathNotFound" <=> ~w.found
            /\ last.res.kind = "MethodNotFound" <=> (w.found /\ ~EndsAt(w.at, last.in.method))
            /\ last.res.kind = "Ok" <=> (w.found /\ EndsAt(w.at, last.in.method))

\* a request whose path matches a route registered for the other method only
C8_Witness ==
    /\ last.op = "resolve"
    /\ last.res.kind = "MethodNotFound"
    /\ \E r \in RouteSet : /\ r.path.method # last.in.method
                           /\ Matches(r.path.items, LastPieces)
    /\ \A r \in RouteSet : r.path.method # last.in.method

----------------------------------------------------------------------------
(* C9: MethodNotFound is returned only where a route for another method    *)
(* ends at the node the walk stopped in, and a path that matches no         *)
(* registered route under any method fails with PathNotFound.               *)
C9_MethodNotFoundMeansOtherMethod ==
    last.op = "resolve" =>
        /\ last.res.kind = "MethodNotFound" =>
              \E r \in RouteSet : /\ r.path.method # last.in.method
                                  /\ r.path.items = Walk(LastPieces).at
        /\ (\A r \in RouteSet : ~Matches(r.path.items, LastPieces))
              => last.res.kind = "PathNotFound"

----------------------------------------------------------------------------
(* C10: an add under a name that is already registered fails with          *)
(* RouteAlreadyExists before the tree is touched: tree and name map stay   *)
(* as they were, so every request resolves and every name links as before. *)
C10_DuplicateNameRejectedFirst ==
    [][(last'.op = "add" /\ last'.in.name \in DOMAIN routes)
          => /\ last'.res.kind = "RouteAlreadyExists"
             /\ tree' = tree
             /\ routes' = routes
             /\ \A m \in Methods, p \in RequestPaths :
                   ResolveResult(routes', tree', m, p) = ResolveResult(routes, tree, m, p)
             /\ \A n \in Names, q \in LinkParams :
                   LinkResult(routes', n, q) = LinkResult(routes, n, q)]_vars

\* a rejected route with another item whose template the tree would have
\* accepted
C10_Witness ==
    /\ last.op = "add"
    /\ last.res.kind = "RouteAlreadyExists"
    /\ last.in.name \in DOMAIN routes
    /\ last.in.item # routes[last.in.name].item
    /\ TreeAdd(tree, Parse(last.in.method, last.in.text).path[1], last.in.name).kind = "Ok"

----------------------------------------------------------------------------
(* Separators. *)

\* the positions where a run of characters other than the separator starts
RunStarts(s) ==
    {i \in 1..Len(s) : s[i] # PATH_SEPARATOR /\ (i = 1 \/ s[i - 1] = PATH_SEPARATOR)}

\* the maximal runs of characters other than the separator, in order
RECURSIVE RunsOf(_, _)
RunsOf(s, S) ==
    IF S = {} THEN <<>>
    ELSE LET i == CHOOSE x \in S : \A y \in S : x <= y
             j == CHOOSE y \in i..Len(s) :
                      /\ \A k \in i..y : s[k] # PATH_SEPARATOR
                      /\ y = Len(s) \/ s[y + 1] = PATH_SEPARATOR
         IN  <<SubSeq(s, i, j)>> \o RunsOf(s, S \ {i})

Runs(s) == RunsOf(s, RunStarts(s))

\* the text with the same runs and exactly one separator before each
Canonical(s) == Slashed(Runs(s))

OnlySeparators(s) == \A i \in 1..Len(s) : s[i] = PATH_SEPARATOR

\* C13: separators carry no information.  A template parses to the segments
\* of, and is accepted or rejected by add as, the template with the same
\* non-empty pieces in the same order and one separator before each; a request
\* path resolves as the path with the same pieces does; a path made only of
\* separators is resolved at the root: it succeeds exactly when a route with
\* no segments is registered for the method, with an empty parameter map.
C13_SeparatorsCarryNothing ==
    [][LET in == last'.in
           c == RouteCreate(in.name, in.method, Canonical(in.text), in.item)
       IN  /\ last'.op \in {"add", "create"} =>
                  /\ RouteCreate(in.name, in.method, in.text, in.item) = c
                  /\ last'.op = "create" <=> c.kind # "Ok"
           /\ last'.op = "add" =>
                  LET a == RouterAddResult(routes, tree, c.route[1])
                  IN  /\ routes' = a.routes
                      /\ tree' = a.tree
                      /\ last'.res.kind = a.kind
           /\ last'.op = "resolve" =>
                  LET r == ResolveResult(routes, tree, in.method, Canonical(in.text))
                  IN  /\ last'.res.kind = r.kind
                      /\ last'.res.item = r.item
                      /\ last'.res.params = r.params
           /\ (last'.op = "resolve" /\ OnlySeparators(in.text)) =>
                  LET R == {r \in RouteSet :
                               r.path.items = <<>> /\ r.path.method = in.method}
                  IN  /\ last'.res.kind = "Ok" <=> R # {}
                      /\ last'.res.kind = "Ok" =>
                             /\ last'.res.params = EmptyMap
                             /\ \E r \in R : last'.res.item = <<r.item>>
      ]_vars

\* a template with doubled and trailing separators was rejected because the
\* route with the same pieces is registered
C13_Witness ==
    /\ last.op = "add"
    /\ last.in.text = <<"/", "/", "a", "/", "/", "b", "/">>
    /\ last.res.kind = "PathAlreadyRegistered"

----------------------------------------------------------------------------
(* Path::parse and Path::render on their own (SpecPath). *)

\* a Wildcard piece stands before the last piece
MisplacedWildcard(ps) == \E i \in 1..(Len(ps) - 1) : ps[i][1] = "*"

\* C11: Path::parse fails with WildcardItemMustBeLast when a piece starting
\* with "*" stands anywhere but last, never fails so when the only such piece
\* is last, and a Path it returns has at most one Wildcard segment, the last.
C11_MisplacedWildcardRejected ==
    last.op = "parse" =>
        LET ps == Pieces(last.in.text)
        IN  /\ MisplacedWildcard(ps) <=> last.res.kind = "WildcardItemMustBeLast"
            /\ last.res.kind = "Ok" =>
                   \A i \in 1..Len(last.res.path[1].items) :
                       IsWildcard(last.res.path[1].items[i]) =>
                           i = Len(last.res.path[1].items)

\* a piece that is a sigil and nothing else
OnlySigil(p) == p = <<":">> \/ p = <<"*">>

\* C12: Path::parse fails with NameMustNotBeEmpty for every template that has
\* a piece consisting only of ":" or only of "*", so no Path it returns has a
\* Parameter or Wildcard segment whose name without the sigil is empty.
C12_SigilOnlyPieceRejected ==
    last.op = "parse" =>
        LET ps == Pieces(last.in.text)
        IN  /\ (\E i \in 1..Len(ps) : OnlySigil(ps[i])) =>
                   last.res.kind = "NameMustNotBeEmpty"
            /\ last.res.kind = "Ok" =>
                   \A i \in 1..Len(last.res.path[1].items) :
                       ~IsStatic(last.res.path[1].items[i]) =>
                           Tail(last.res.path[1].items[i].name) # <<>>

\* the positions of the Parameter and Wildcard segments whose name without the
\* sigil is no key of the map
MissingAt(items, params) ==
    {i \in 1..Len(items) : ~IsStatic(items[i]) /\ Tail(items[i].name) \notin DOMAIN params}

\* C14: Path::render succeeds exactly when the name without the sigil of every
\* Parameter and Wildcard segment is a key of the map, whatever other keys the
\* map has; it then returns the literal names and the mapped values joined
\* with "/"; otherwise it fails with ParameterNotFound for the first missing
\* segment; a Path of Static segments only renders to render_original().
C14_RenderExactlyWhenAllPresent ==
    last.op = "render" =>
        LET items == last.res.path[1].items
            q == last.in.params
            M == MissingAt(items, q)
        IN  /\ last.res.kind = "Ok" <=> M = {}
            /\ M = {} =>
                   last.res.text =
                       Join([i \in 1..Len(items) |->
                                IF IsStatic(items[i]) THEN items[i].name
                                ELSE q[Tail(items[i].name)]])
            /\ M # {} =>
                   /\ last.res.kind = "ParameterNotFound"
                   /\ last.res.text = items[CHOOSE i \in M : \A j \in M : i <= j].name
            /\ AllStatic(items) =>
                   /\ last.res.kind = "Ok"
                   /\ last.res.text = RenderOriginal(last.res.path[1])

\* a render that found the value of the first dynamic segment and failed for
\* the second
C14_Witness ==
    /\ last.op = "render"
    /\ last.res.kind = "ParameterNotFound"
    /\ Len(last.res.path[1].items) = 2
    /\ ~IsStatic(last.res.path[1].items[1])
    /\ Tail(last.res.path[1].items[1].name) \in DOMAIN last.in.params
    /\ last.res.text = last.res.path[1].items[2].name

----------------------------------------------------------------------------
(* Router::link (Spec). *)

\* what Path::render returns when no parameter is missing
Rendered(items, params) ==
    Join([i \in 1..Len(items) |->
             IF IsStatic(items[i]) THEN items[i].name ELSE params[Tail(items[i].name)]])

\* a name gets into the name map only by a successful add of that name
OnlyAddedNamesLink ==
    \A n \in Names :
        (n \notin DOMAIN routes /\ n \in DOMAIN routes') =>
            (last'.op = "add" /\ last'.res.kind = "Ok" /\ last'.in.name = n)

\* C15 as stated: link fails with RouteNotFound exactly when the name is not
\* in the name map, whatever the parameters; for a known name it fails with
\* ParameterNotFound exactly when a Parameter or Wildcard segment has no
\* value; otherwise it returns a URL, the base address joined with the
\* rendered path; only names whose add succeeded are linkable.
C15_LinkFailsOnlyTwoWays ==
    [][/\ last'.op = "link" =>
              LET known == last'.in.name \in DOMAIN routes
                  items == routes[last'.in.name].path.items
                  M == MissingAt(items, last'.in.params)
              IN  /\ last'.res.kind = "RouteNotFound" <=> ~known
                  /\ known => (last'.res.kind = "ParameterNotFound" <=> M # {})
                  /\ (known /\ M = {}) =>
                         (last'.res.kind = "Ok" /\ last'.res.url # <<>>)
       /\ OnlyAddedNamesLink
      ]_vars

\* C15 amended: as above, but with every value present link returns what
\* joining the base address with the rendered path gives: a URL, or
\* UrlParseError, as for the rendered path "//".
C15_LinkFailsThreeWays ==
    [][/\ last'.op = "link" =>
              LET known == last'.in.name \in DOMAIN routes
                  items == routes[last'.in.name].path.items
                  M == MissingAt(items, last'.in.params)
                  j == UrlJoin(BASE, Rendered(items, last'.in.params))
              IN  /\ last'.res.kind = "RouteNotFound" <=> ~known
                  /\ known => (last'.res.kind = "ParameterNotFound" <=> M # {})
                  /\ (known /\ M = {}) =>
                         /\ last'.res.kind = j.kind
                         /\ last'.res.url = j.url
                         /\ j.kind \in {"Ok", "UrlParseError"}
                         /\ j.kind = "Ok" <=> j.url # <<>>
                         /\ Rendered(items, last'.in.params) = <<"/", "/">> =>
                                j.kind = "UrlParseError"
       /\ OnlyAddedNamesLink
      ]_vars

\* a link of a registered route with every value present that failed in the join
C15_Witness ==
    /\ last.op = "link"
    /\ last.in.name \in DOMAIN routes
    /\ MissingAt(routes[last.in.name].path.items, last.in.params) = {}
    /\ last.res.kind = "UrlParseError"

----------------------------------------------------------------------------
(* Router::optimize (Spec). *)

\* C16: optimize changes nothing a caller can observe and locks nothing: it
\* leaves the name map and the tree as they were, so after it every resolve
\* and every link returns what it would have returned before it, and every
\* add is accepted or rejected as it would have been before it, leaving the
\* same router.
C16_OptimizeChangesNothing ==
    [][last'.op = "optimize" =>
          /\ routes' = routes
          /\ tree' = tree
          /\ \A m \in Methods, p \in RequestPaths :
                 ResolveResult(routes', tree', m, p) = ResolveResult(routes, tree, m, p)
          /\ \A n \in Names, q \in LinkParams :
                 LinkResult(routes', n, q) = LinkResult(routes, n, q)
          /\ \A n \in Names, m \in Methods, t \in Templates, i \in Items :
                 LET c == RouteCreate(n, m, t, i)
                 IN  c.kind = "Ok" =>
                         RouterAddResult(routes', tree', c.route[1]) =
                             RouterAddResult(routes, tree, c.route[1])
      ]_vars

\* optimize has returned on a router whose tree has a static child with a
\* dynamic child below it, and which would accept one more route and reject
\* another
C16_Witness ==
    /\ last.op = "optimize"
    /\ \E k \in DOMAIN tree.root.static_children :
           tree.root.static_children[k].dynamic_child # <<>>
    /\ \E n \in Names, m \in Methods, t \in Templates :
           LET c == RouteCreate(n, m, t, 1)
           IN  c.kind = "Ok" /\ RouterAddResult(routes, tree, c.route[1]).kind = "Ok"
    /\ \E n \in Names, m \in Methods, t \in Templates :
           LET c == RouteCreate(n, m, t, 1)
           IN  c.kind = "Ok" /\
               RouterAddResult(routes, tree, c.route[1]).kind = "PathAlreadyRegistered"

----------------------------------------------------------------------------
(* C17: every public operation returns a success or an error value for     *)
(* every input and never aborts: no slice of a first character (&part[..1] *)
(* in Path::parse, &name[1..] in Tree::lookup and Path::render) is taken    *)
(* off a character boundary, whatever the first character of a piece is.    *)
C17_NoOperationAborts == last.res.kind # "Panic"

----------------------------------------------------------------------------
(* Tree and name map (Spec). *)

\* the entries of the item maps at and below `node`, each with the segments
\* that lead to its node from the root
RECURSIVE EntriesBelow(_, _)
EntriesBelow(node, prefix) ==
    {[items |-> prefix, method |-> m, name |-> node.item[m]] : m \in DOMAIN node.item}
    \cup UNION {EntriesBelow(node.static_children[k], Append(prefix, StaticItem(k))) :
                   k \in DOMAIN node.static_children}
    \cup (IF node.dynamic_child = <<>> THEN {}
          ELSE LET d == node.dynamic_child[1]
               IN  EntriesBelow(d.node, Append(prefix, [kind |-> d.child_type,
                                                        name |-> d.name])))

\* C18: the tree and the name map agree.  Every route is filed in the name
\* map under its own name; the entries of the tree are exactly one per
\* registered route, at the node its template leads to, under its method and
\* holding its name; so the name that the lookup of a resolve finds is a key of
\* the name map and the resolve succeeds.
C18_TreeAndNamesAgree ==
    /\ \A n \in DOMAIN routes : routes[n].name = n
    /\ EntriesBelow(tree.root, <<>>) =
           {[items |-> r.path.items, method |-> r.path.method, name |-> r.name] :
               r \in RouteSet}
    /\ Cardinality(EntriesBelow(tree.root, <<>>)) = Cardinality(DOMAIN routes)
    /\ last.op = "resolve" =>
           LET m == Lookup(tree, last.in.method, last.in.text)
           IN  m.kind = "Ok" => (m.item[1] \in DOMAIN routes /\ last.res.kind = "Ok")

\* a route of two segments is registered and an add has just failed in the
\* tree
C18_Witness ==
    /\ last.op = "add"
    /\ last.res.kind = "PathAlreadyRegistered"
    /\ \E r \in RouteSet : Len(r.path.items) = MaxSegs

----------------------------------------------------------------------------
(* Registration and earlier results (Spec). *)

\* the template T puts a literal equal to the path's piece where the template
\* W, the same up to there, has a Parameter or Wildcard
Shadows(T, W, ps) ==
    \E i \in 1..Len(W) :
        /\ W[i].kind # "Static"
        /\ Len(T) >= i
        /\ Prefix(T, i - 1) = Prefix(W, i - 1)
        /\ T[i] = StaticItem(ps[i])

\* C19 as stated: after a successful add, every method and path whose resolve
\* succeeded before the add still resolves, to the same item with the same
\* parameter map.
C19_ResolvedStaysResolved ==
    [][(last'.op = "add" /\ last'.res.kind = "Ok") =>
          \A m \in Methods, p \in RequestPaths :
              LET old == ResolveResult(routes, tree, m, p)
              IN  old.kind = "Ok" => ResolveResult(routes', tree', m, p) = old
      ]_vars

\* C19 amended: the same, except for a path that was resolved through a
\* Parameter or Wildcard segment where the new template, the same up to
\* there, has a literal equal to the path's piece.
C19_UnshadowedStaysResolved ==
    [][(last'.op = "add" /\ last'.res.kind = "Ok") =>
          \A m \in Methods, p \in RequestPaths :
              LET old == ResolveResult(routes, tree, m, p)
                  T == ItemsOf(last'.in.text)
              IN  (old.kind = "Ok" /\ ~Shadows(T, Walk(Pieces(p)).at, Pieces(p))) =>
                      ResolveResult(routes', tree', m, p) = old
      ]_vars

\* a route has just been added whose literal stands where an older route has
\* a Parameter or Wildcard
C19_Witness ==
    /\ last.op = "add"
    /\ last.res.kind = "Ok"
    /\ \E r \in RouteSet :
           /\ r.name # last.in.name
           /\ \E i \in 1..Len(r.path.items) :
                  /\ r.path.items[i].kind # "Static"
                  /\ Len(ItemsOf(last.in.text)) >= i
                  /\ Prefix(ItemsOf(last.in.text), i - 1) = Prefix(r.path.items, i - 1)
                  /\ ItemsOf(last.in.text)[i].kind = "Static"

----------------------------------------------------------------------------
(* Resolve, then render (Spec). *)

\* the routes whose template the walk for the pieces ends at, for the method
MatchedBy(m, ps) ==
    {r \in RouteSet : r.path.method = m /\ r.path.items = Walk(ps).at}

DynamicAt(items) == {i \in 1..Len(items) : items[i].kind # "Static"}

\* no two Parameter or Wildcard segments have the same name after the sigil
DistinctNames(items) ==
    \A i, j \in DynamicAt(items) : i # j => Tail(items[i].name) # Tail(items[j].name)

\* C20 as stated: for every successful resolve, the template of the matched
\* route rendered with the extracted parameter map succeeds and is the
\* non-empty pieces of the requested path joined with "/", so that link of
\* the route's name with that map points back to the requested path; the
\* map has one entry for each Parameter or Wildcard segment of the template.
C20_RenderInvertsResolve ==
    (last.op = "resolve" /\ last.res.kind = "Ok") =>
        \A r \in MatchedBy(last.in.method, LastPieces) :
            /\ Render(r.path, last.res.params) =
                   [kind |-> "Ok", text |-> Join(Runs(last.in.text))]
            /\ LinkResult(routes, r.name, last.res.params) =
                   [kind |-> "Ok",
                    url |-> <<[origin |-> <<BASE>>, path |-> Canonical(last.in.text)]>>]
            /\ Cardinality(DOMAIN last.res.params) = Cardinality(DynamicAt(r.path.items))

\* C20 amended: the same for a matched route whose Parameter and Wildcard
\* segments have pairwise distinct names, link being the join of the base
\* address with the pieces of the requested path joined with "/".
C20_RenderInvertsResolveOfDistinctNames ==
    (last.op = "resolve" /\ last.res.kind = "Ok") =>
        /\ MatchedBy(last.in.method, LastPieces) # {}
        /\ \A r \in MatchedBy(last.in.method, LastPieces) :
               DistinctNames(r.path.items) =>
                   /\ Render(r.path, last.res.params) =
                          [kind |-> "Ok", text |-> Join(Runs(last.in.text))]
                   /\ LinkResult(routes, r.name, last.res.params) =
                          UrlJoin(BASE, Join(Runs(last.in.text)))
                   /\ Cardinality(DOMAIN last.res.params) =
                          Cardinality(DynamicAt(r.path.items))

\* a resolve through a Parameter and a Wildcard segment
C20_Witness ==
    /\ last.op = "resolve"
    /\ last.res.kind = "Ok"
    /\ Cardinality(DOMAIN last.res.params) = MaxSegs
    /\ Len(LastPieces) = MaxPieces

====
